---- MODULE Spec2Model ----
(***************************************************************************)
(* Voice session bridge of the journal application (src/main.py):          *)
(* voice_websocket, its nested relay_from_openai task and                  *)
(* save_voice_transcript.  One session is modelled: the handler's position *)
(* (pc), the relay task's position (relay_pc), the session's local         *)
(* variables, the two connections, and logs of what crossed each wire.     *)
(* Each action is the code that runs between two await points of the       *)
(* asyncio event loop.                                                     *)
(***************************************************************************)
EXTENDS Integers, Sequences, FiniteSets, TLC

\* Bounds of the model: number of frames the upstream service and the
\* client deliver to the two forwarding routines of one session.
MaxUp ==
  2
MaxClient ==
  1
\* Bound on the length of the fragment lists the flush is applied to.
MaxFragments ==
  3

VARIABLES
  pc,                      \* position of voice_websocket
  relay_pc,                \* position of the relay_from_openai task
  api_key,                 \* os.getenv("OPENAI_API_KEY") is set
  session_type,
  awaiting_response,
  conversation_transcript,
  openai_ws,               \* "none" | "open" | "dropped" | "closed"
  client_conn,             \* "open" | "gone"
  relay_msg,               \* message held by relay_from_openai
  client_msg,              \* message held by the client loop
  upReceived,              \* frames relay_from_openai received, in order
  toClient,                \* frames delivered to the client, in order
  clientReceived,          \* frames the client loop received, in order
  toUpstream,              \* frames delivered to upstream, in order
  entries,                 \* rows inserted into the entries table
  save_calls,              \* number of calls of save_voice_transcript
  save_error,              \* save_voice_transcript took its except branch
  requests_since_commit    \* history: response.create frames delivered upstream
                           \* since the last committed event was received and
                           \* before a completion event (-1: none pending)

vars ==
  << pc, relay_pc, api_key, session_type, awaiting_response,
     conversation_transcript, openai_ws, client_conn, relay_msg, client_msg,
     upReceived, toClient, clientReceived, toUpstream, entries, save_calls,
     save_error, requests_since_commit >>

----------------------------------------------------------------------------
(* Frames.  A frame is binary or text; a text frame is described by what   *)
(* json.loads makes of it (a JSON object with a type and one argument, a   *)
(* JSON value that is not an object, or text that is not JSON).            *)

Frame(fmt, syntax, type, arg) ==
  [fmt |-> fmt, syntax |-> syntax, type |-> type, arg |-> arg]

BinaryFrame ==
  Frame("bytes", "-", "-", "-")
MalformedText ==
  Frame("text", "malformed", "-", "-")
ArrayText ==
  Frame("text", "array", "-", "-")
Event(type, arg) ==
  Frame("text", "object", type, arg)

NoFrame ==
  Frame("-", "-", "-", "-")

\* The completion-event kinds of relay_from_openai.
CompletionTypes ==
  { "response.completed", "response.audio.done", "response.output_audio.done",
    "response.text.done", "response.output_text.done" }

UserTexts ==
  { "A" }
AssistantTexts ==
  { "B" }

\* What the upstream service can deliver to the relay.
UpstreamFrames ==
  { BinaryFrame, MalformedText, ArrayText,
    Event("input_audio_buffer.committed", "-") }
  \cup { Event(t, "-") : t \in CompletionTypes \ {"response.text.done", "response.output_text.done"} }
  \cup { Event("response.text.done", b) : b \in AssistantTexts }
  \cup { Event("response.output_text.done", b) : b \in AssistantTexts }
  \cup { Event("conversation.item.input_audio_transcription.completed", a) : a \in UserTexts }

\* What the client can deliver to the client loop.
ClientFrames ==
  { BinaryFrame, MalformedText, ArrayText,
    Event("response.create", "-"),
    Event("input_audio_buffer.commit", "-") }

\* First message of the client: the configuration message.
KnownSessionTypes ==
  { "reflection", "planning", "notes", "goals" }
Unhashable ==
  "[list]"
ConfigFrames ==
  { BinaryFrame, MalformedText, ArrayText,
    Event("config", "planning"),
    Event("config", "journal"),
    Event("config", Unhashable) }

\* json.loads: the parsed value, or a failure.
json_loads(frame) ==
  IF frame.syntax = "malformed"
    THEN [ok |-> FALSE, isdict |-> FALSE, type |-> "-", arg |-> "-"]
    ELSE [ok |-> TRUE, isdict |-> (frame.syntax = "object"),
          type |-> frame.type, arg |-> frame.arg]

----------------------------------------------------------------------------
(* Prompt selection.                                                       *)

VOICE_PROMPTS ==
  [t \in KnownSessionTypes |-> "voice prompt: " \o t]
BASE_PROMPTS ==
  [t \in KnownSessionTypes |-> "base prompt: " \o t]
INITIAL_MESSAGES ==
  [t \in KnownSessionTypes |-> "initial message: " \o t]

\* dict.get(key, default); an unhashable key raises TypeError.
dict_get(d, key, default) ==
  IF key = Unhashable THEN "<TypeError>"
  ELSE IF key \in DOMAIN d THEN d[key] ELSE default

get_session_prompt(st, is_voice) ==
  LET prompts == IF is_voice THEN VOICE_PROMPTS ELSE BASE_PROMPTS
  IN  dict_get(prompts, st, prompts["reflection"])

----------------------------------------------------------------------------
(* Messages the bridge itself creates.                                      *)

SessionUpdate(st) ==
  Event("session.update", get_session_prompt(st, TRUE))
AutoResponseCreate ==
  Event("response.create", "modalities")
ReadyMsg ==
  Event("ready", "Voice session ready")
ErrorMsg ==
  Event("error", "message")

ToUp(src, frame) ==
  [src |-> src, frame |-> frame]
ToCl(src, frame) ==
  [src |-> src, frame |-> frame]

\* datetime.now().isoformat(): a logical clock, the number of upstream
\* messages received so far.
isoformat(n) ==
  "T" \o ToString(n)

Fragment(role, content, ts) ==
  [role |-> role, content |-> content, timestamp |-> ts]

----------------------------------------------------------------------------
(* save_voice_transcript.                                                  *)

RECURSIVE user_contents(_)
user_contents(transcript) ==
  IF transcript = << >> THEN << >>
  ELSE LET rest == user_contents(Tail(transcript))
       IN  IF Head(transcript).role = "user"
             THEN << Head(transcript).content >> \o rest
             ELSE rest

RECURSIVE join_without_separator(_)
join_without_separator(parts) ==
  IF parts = << >> THEN ""
  ELSE parts[1] \o join_without_separator(Tail(parts))

\* " ".join(parts)
RECURSIVE join(_)
join(parts) ==
  IF parts = << >> THEN ""
  ELSE IF Len(parts) = 1 THEN parts[1]
  ELSE parts[1] \o " " \o join(Tail(parts))

\* json.dumps of the fragment list: the token stream of the JSON text.
RECURSIVE json_dumps_items(_)
json_dumps_items(transcript) ==
  IF transcript = << >> THEN << >>
  ELSE << "{", Head(transcript).role, Head(transcript).content,
          Head(transcript).timestamp, "}" >>
       \o json_dumps_items(Tail(transcript))

json_dumps(transcript) ==
  << "[" >> \o json_dumps_items(transcript) \o << "]" >>

\* json.loads of such a token stream (as parse_ai_prompts reads it back).
RECURSIVE json_loads_items(_)
json_loads_items(tokens) ==
  IF Len(tokens) < 5 THEN << >>
  ELSE << Fragment(tokens[2], tokens[3], tokens[4]) >>
       \o json_loads_items(SubSeq(tokens, 6, Len(tokens)))

parse_ai_prompts(tokens) ==
  IF tokens = << >> THEN << >>
  ELSE json_loads_items(SubSeq(tokens, 2, Len(tokens) - 1))

save_voice_transcript_saves_any(transcript, st, db_ok) ==
  IF transcript # << >>
    THEN IF db_ok
           THEN [rows |-> << [type |-> "voice_" \o st,
                             content |-> join(user_contents(transcript)),
                             ai_prompts |-> json_dumps(transcript)] >>,
                 error |-> FALSE]
           ELSE [rows |-> << >>, error |-> TRUE]
    ELSE [rows |-> << >>, error |-> FALSE]

\* The rows save_voice_transcript inserts and whether it ended in its
\* except branch; db_ok = the INSERT and commit succeed.
save_voice_transcript(transcript, st, db_ok) ==
  LET user_content == user_contents(transcript)
  IN  IF user_content # << >>
        THEN IF db_ok
               THEN [rows |-> << [type |-> "voice_" \o st,
                                 content |-> join(user_content),
                                 ai_prompts |-> json_dumps(transcript)] >>,
                     error |-> FALSE]
               ELSE [rows |-> << >>, error |-> TRUE]
        ELSE [rows |-> << >>, error |-> FALSE]

----------------------------------------------------------------------------
(* Initial state: the client connection was accepted.                      *)

Init ==
  /\ pc = "start"
  /\ relay_pc = "none"
  /\ api_key \in BOOLEAN
  /\ session_type = "reflection"
  /\ awaiting_response = FALSE
  /\ conversation_transcript = << >>
  /\ openai_ws = "none"
  /\ client_conn = "open"
  /\ relay_msg = NoFrame
  /\ client_msg = NoFrame
  /\ upReceived = << >>
  /\ toClient = << >>
  /\ clientReceived = << >>
  /\ toUpstream = << >>
  /\ entries = << >>
  /\ save_calls = 0
  /\ save_error = FALSE
  /\ requests_since_commit = -1

\* The history variable after an upstream message of this type was received:
\* a committed event opens a window, a completion event closes it.
window_after_receive(data, window) ==
  IF data.type = "input_audio_buffer.committed" THEN 0
  ELSE IF data.type \in CompletionTypes THEN -1
  ELSE window

\* The history variable after a frame was delivered upstream.
window_after_send(frame, window) ==
  IF window >= 0 /\ frame.syntax = "object" /\ frame.type = "response.create"
    THEN window + 1 ELSE window

cancel_leaves_running(rp) ==
  rp

\* task.cancel(): a task that has not finished takes no further step.
cancel(rp) ==
  IF rp \in {"recv", "auto_send", "fwd"} THEN "cancelled" ELSE rp

----------------------------------------------------------------------------
(* voice_websocket: setup.                                                 *)

CheckApiKey_ignores_missing_key ==
  /\ pc = "start"
  /\ pc' = "recv_config"
  /\ UNCHANGED << relay_pc, api_key, session_type, awaiting_response,
                  conversation_transcript, openai_ws, client_conn, relay_msg,
                  client_msg, upReceived, toClient, clientReceived,
                  toUpstream, entries, save_calls, save_error, requests_since_commit >>

\* lines 578-584: the credential check.
CheckApiKey ==
  /\ pc = "start"
  /\ pc' = IF api_key THEN "recv_config" ELSE "err_nokey"
  /\ UNCHANGED << relay_pc, api_key, session_type, awaiting_response,
                  conversation_transcript, openai_ws, client_conn, relay_msg,
                  client_msg, upReceived, toClient, clientReceived,
                  toUpstream, entries, save_calls, save_error, requests_since_commit >>

after_no_key_error_falls_through ==
  "recv_config"

\* line 584: the return after the error for the missing credential.
after_no_key_error ==
  "finally"

\* lines 580-584: the error for the missing credential, then return.
SendNoKeyError ==
  /\ pc = "err_nokey"
  /\ IF client_conn = "open"
       THEN /\ toClient' = Append(toClient, ToCl("bridge", ErrorMsg))
            /\ pc' = after_no_key_error
       ELSE /\ toClient' = toClient
            /\ pc' = "except"
  /\ UNCHANGED << relay_pc, api_key, session_type, awaiting_response,
                  conversation_transcript, openai_ws, client_conn, relay_msg,
                  client_msg, upReceived, clientReceived, toUpstream, entries,
                  save_calls, save_error, requests_since_commit >>

\* lines 587-589: receive_text, json.loads, config.get.
ReceiveConfig ==
  /\ pc = "recv_config"
  /\ client_conn = "open"
  /\ \E cfg \in ConfigFrames :
       LET config == json_loads(cfg)
       IN  IF cfg.fmt = "text" /\ config.ok /\ config.isdict
             THEN /\ session_type' = IF config.arg = "<absent>"
                                       THEN "reflection" ELSE config.arg
                  /\ pc' = "connect"
             ELSE /\ session_type' = session_type
                  /\ pc' = "except"
  /\ UNCHANGED << relay_pc, api_key, awaiting_response,
                  conversation_transcript, openai_ws, client_conn, relay_msg,
                  client_msg, upReceived, toClient, clientReceived,
                  toUpstream, entries, save_calls, save_error, requests_since_commit >>

\* line 587 when the client has gone: receive_text raises WebSocketDisconnect.
ReceiveConfigDisconnected ==
  /\ pc = "recv_config"
  /\ client_conn = "gone"
  /\ pc' = "except"
  /\ UNCHANGED << relay_pc, api_key, session_type, awaiting_response,
                  conversation_transcript, openai_ws, client_conn, relay_msg,
                  client_msg, upReceived, toClient, clientReceived,
                  toUpstream, entries, save_calls, save_error, requests_since_commit >>

\* lines 599-602: websockets.connect succeeds or raises.
ConnectUpstream ==
  /\ pc = "connect"
  /\ \E ok \in BOOLEAN :
       IF ok THEN openai_ws' = "open" /\ pc' = "send_config"
             ELSE openai_ws' = openai_ws /\ pc' = "except"
  /\ UNCHANGED << relay_pc, api_key, session_type, awaiting_response,
                  conversation_transcript, client_conn, relay_msg, client_msg,
                  upReceived, toClient, clientReceived, toUpstream, entries,
                  save_calls, save_error, requests_since_commit >>

SendSessionConfig_not_sent ==
  /\ pc = "send_config"
  /\ IF session_type # Unhashable /\ openai_ws = "open"
       THEN /\ toUpstream' = toUpstream
            /\ pc' = "send_ready"
       ELSE /\ toUpstream' = toUpstream
            /\ pc' = "except"
  /\ UNCHANGED << relay_pc, api_key, session_type, awaiting_response,
                  conversation_transcript, openai_ws, client_conn, relay_msg,
                  client_msg, upReceived, toClient, clientReceived, entries,
                  save_calls, save_error, requests_since_commit >>

\* lines 607-623: build session.update and send it upstream.
SendSessionConfig ==
  /\ pc = "send_config"
  /\ IF session_type # Unhashable /\ openai_ws = "open"
       THEN /\ toUpstream' = Append(toUpstream,
                                    ToUp("bridge", SessionUpdate(session_type)))
            /\ pc' = "send_ready"
       ELSE /\ toUpstream' = toUpstream
            /\ pc' = "except"
  /\ UNCHANGED << relay_pc, api_key, session_type, awaiting_response,
                  conversation_transcript, openai_ws, client_conn, relay_msg,
                  client_msg, upReceived, toClient, clientReceived, entries,
                  save_calls, save_error, requests_since_commit >>

\* lines 626-629 and 700: the ready message, then create_task(relay_from_openai()).
SendReady ==
  /\ pc = "send_ready"
  /\ IF client_conn = "open"
       THEN /\ toClient' = Append(toClient, ToCl("bridge", ReadyMsg))
            /\ relay_pc' = "recv"
            /\ pc' = "loop"
       ELSE /\ toClient' = toClient
            /\ relay_pc' = relay_pc
            /\ pc' = "except"
  /\ UNCHANGED << api_key, session_type, awaiting_response,
                  conversation_transcript, openai_ws, client_conn, relay_msg,
                  client_msg, upReceived, clientReceived, toUpstream, entries,
                  save_calls, save_error, requests_since_commit >>

----------------------------------------------------------------------------
(* relay_from_openai: the upstream-to-client routine.                      *)

auto_advance_ignores_flag(data, awaiting) ==
  data.type = "input_audio_buffer.committed"

\* line 653: the auto-advance condition.
auto_advance(data, awaiting) ==
  data.type = "input_audio_buffer.committed" /\ ~awaiting

clear_awaiting_misses_a_kind(data, awaiting) ==
  IF data.type \in CompletionTypes \ {"response.output_audio.done"}
    THEN FALSE ELSE awaiting

\* lines 665-672: the flag after the completion check.
clear_awaiting(data, awaiting) ==
  IF data.type \in CompletionTypes THEN FALSE ELSE awaiting

\* lines 675-689: the fragment list after the transcript check.
save_transcripts(data, transcript, now) ==
  IF data.type = "conversation.item.input_audio_transcription.completed"
    THEN Append(transcript, Fragment("user", data.arg, isoformat(now)))
  ELSE IF data.type = "response.text.done"
    THEN Append(transcript, Fragment("assistant", data.arg, isoformat(now)))
  ELSE transcript

relay_dispatch_drops_malformed(message, awaiting) ==
  LET data == json_loads(message)
  IN  IF message.fmt = "bytes" THEN "fwd"
      ELSE IF ~data.ok THEN "recv"
      ELSE IF ~data.isdict THEN "stopped"
      ELSE IF auto_advance(data, awaiting) THEN "auto_send"
      ELSE "fwd"

relay_dispatch_parse_error_raises(message, awaiting) ==
  LET data == json_loads(message)
  IN  IF message.fmt = "bytes" THEN "fwd"
      ELSE IF ~data.ok THEN "stopped"
      ELSE IF ~data.isdict THEN "stopped"
      ELSE IF auto_advance(data, awaiting) THEN "auto_send"
      ELSE "fwd"

\* lines 638-653: where relay_from_openai goes with a received message:
\* binary and unparseable frames are forwarded at once (639, 647), data.get
\* on a parsed value that is not a dict raises and ends the routine (650,
\* 696), a committed event with the flag false awaits the auto-advance send
\* (655), every other event is inspected and forwarded (692).
relay_dispatch(message, awaiting) ==
  LET data == json_loads(message)
  IN  IF message.fmt = "bytes" THEN "fwd"
      ELSE IF ~data.ok THEN "fwd"
      ELSE IF ~data.isdict THEN "stopped"
      ELSE IF auto_advance(data, awaiting) THEN "auto_send"
      ELSE "fwd"

\* lines 636-692 up to the first await: the next upstream message arrives,
\* is classified and parsed, and the flag and the fragment list are updated.
RelayReceive ==
  /\ relay_pc = "recv"
  /\ openai_ws = "open"
  /\ Len(upReceived) < MaxUp
  /\ \E message \in UpstreamFrames :
       LET data == json_loads(message)
           now  == Len(upReceived) + 1
           next == relay_dispatch(message, awaiting_response)
           inspected == message.fmt = "text" /\ data.ok /\ data.isdict
       IN  /\ upReceived' = Append(upReceived, message)
           /\ relay_msg' = message
           /\ relay_pc' = next
           /\ IF inspected /\ next = "fwd"
                THEN /\ awaiting_response' = clear_awaiting(data, awaiting_response)
                     /\ conversation_transcript' =
                          save_transcripts(data, conversation_transcript, now)
                     /\ requests_since_commit' =
                          window_after_receive(data, requests_since_commit)
              ELSE IF inspected /\ next = "auto_send"
                THEN /\ requests_since_commit' =
                          window_after_receive(data, requests_since_commit)
                     /\ UNCHANGED << awaiting_response, conversation_transcript >>
              ELSE UNCHANGED << awaiting_response, conversation_transcript,
                                requests_since_commit >>
  /\ UNCHANGED << pc, api_key, session_type, openai_ws, client_conn,
                  client_msg, toClient, clientReceived, toUpstream, entries,
                  save_calls, save_error >>

\* lines 636 and 694-695: the upstream connection has closed.
RelayReceiveClosed ==
  /\ relay_pc = "recv"
  /\ openai_ws = "dropped"
  /\ relay_pc' = "stopped"
  /\ UNCHANGED << pc, api_key, session_type, awaiting_response,
                  conversation_transcript, openai_ws, client_conn, relay_msg,
                  client_msg, upReceived, toClient, clientReceived,
                  toUpstream, entries, save_calls, save_error, requests_since_commit >>

\* lines 654-689: the auto-advance send returns (or raises, which is
\* swallowed at 661), then the rest of the inspection of the same message.
RelayAutoSend ==
  /\ relay_pc = "auto_send"
  /\ LET data == json_loads(relay_msg)
         sent == (openai_ws = "open")
         flag == IF sent THEN TRUE ELSE awaiting_response
     IN  /\ toUpstream' = IF sent
                            THEN Append(toUpstream, ToUp("bridge", AutoResponseCreate))
                            ELSE toUpstream
         /\ awaiting_response' = clear_awaiting(data, flag)
         /\ conversation_transcript' =
              save_transcripts(data, conversation_transcript, Len(upReceived))
         /\ requests_since_commit' =
              IF sent THEN window_after_send(AutoResponseCreate, requests_since_commit)
                      ELSE requests_since_commit
  /\ relay_pc' = "fwd"
  /\ UNCHANGED << pc, api_key, session_type, openai_ws, client_conn, relay_msg,
                  client_msg, upReceived, toClient, clientReceived, entries,
                  save_calls, save_error >>

\* lines 639, 647, 692 and 696-697: the send to the client returns or raises.
RelayForward ==
  /\ relay_pc = "fwd"
  /\ IF client_conn = "open"
       THEN /\ toClient' = Append(toClient, ToCl("upstream", relay_msg))
            /\ relay_pc' = "recv"
       ELSE /\ toClient' = toClient
            /\ relay_pc' = "stopped"
  /\ UNCHANGED << pc, api_key, session_type, awaiting_response,
                  conversation_transcript, openai_ws, client_conn, relay_msg,
                  client_msg, upReceived, clientReceived, toUpstream, entries,
                  save_calls, save_error, requests_since_commit >>

----------------------------------------------------------------------------
(* voice_websocket: the client-to-upstream loop.                           *)

\* lines 722-727: the flag after a client text message was inspected.
track_response_create(message, awaiting) ==
  LET payload == json_loads(message)
  IN  IF message.fmt = "text" /\ payload.ok /\ payload.isdict
         /\ payload.type = "response.create"
        THEN TRUE ELSE awaiting

\* lines 705-727: a client message arrives and is inspected.
ClientLoopReceive ==
  /\ pc = "loop"
  /\ client_conn = "open"
  /\ Len(clientReceived) < MaxClient
  /\ \E message \in ClientFrames :
       /\ clientReceived' = Append(clientReceived, message)
       /\ client_msg' = message
       /\ awaiting_response' = track_response_create(message, awaiting_response)
  /\ pc' = "c2u_send"
  /\ UNCHANGED << relay_pc, api_key, session_type, conversation_transcript,
                  openai_ws, client_conn, relay_msg, upReceived, toClient,
                  toUpstream, entries, save_calls, save_error, requests_since_commit >>

\* lines 705-708 and 732-733: the disconnect message, break, cancel.
ClientLoopDisconnect ==
  /\ pc = "loop"
  /\ client_conn = "gone"
  /\ relay_pc' = cancel(relay_pc)
  /\ pc' = "finally"
  /\ UNCHANGED << api_key, session_type, awaiting_response,
                  conversation_transcript, openai_ws, client_conn, relay_msg,
                  client_msg, upReceived, toClient, clientReceived,
                  toUpstream, entries, save_calls, save_error, requests_since_commit >>

\* lines 715, 728 and 732-735: the send upstream returns, or raises and the
\* exception leaves the loop through the inner finally.
ClientLoopSend ==
  /\ pc = "c2u_send"
  /\ IF openai_ws = "open"
       THEN /\ toUpstream' = Append(toUpstream, ToUp("client", client_msg))
            /\ requests_since_commit' =
                 window_after_send(client_msg, requests_since_commit)
            /\ relay_pc' = relay_pc
            /\ pc' = "loop"
       ELSE /\ toUpstream' = toUpstream
            /\ requests_since_commit' = requests_since_commit
            /\ relay_pc' = cancel(relay_pc)
            /\ pc' = "except"
  /\ UNCHANGED << api_key, session_type, awaiting_response,
                  conversation_transcript, openai_ws, client_conn, relay_msg,
                  client_msg, upReceived, toClient, clientReceived, entries,
                  save_calls, save_error >>

----------------------------------------------------------------------------
(* voice_websocket: the exception handler and the teardown.                *)

\* lines 735-740: the error message of the outer exception handler.
SendError ==
  /\ pc = "except"
  /\ toClient' = IF client_conn = "open"
                   THEN Append(toClient, ToCl("bridge", ErrorMsg))
                   ELSE toClient
  /\ pc' = "finally"
  /\ UNCHANGED << relay_pc, api_key, session_type, awaiting_response,
                  conversation_transcript, openai_ws, client_conn, relay_msg,
                  client_msg, upReceived, clientReceived, toUpstream, entries,
                  save_calls, save_error, requests_since_commit >>

upstream_after_teardown_skipped_on_error(ws, save_failed) ==
  IF ws # "none" /\ ~save_failed THEN "closed" ELSE ws

\* lines 746-748: the upstream connection after the finally block, whatever
\* the flush did.
upstream_after_teardown(ws, save_failed) ==
  IF ws # "none" THEN "closed" ELSE ws

\* lines 741-748, the finally block: the flush of the fragment list (an
\* exception while persisting is swallowed inside save_voice_transcript),
\* then the close of the upstream connection if there is one.
Teardown ==
  /\ pc = "finally"
  /\ IF conversation_transcript # << >>
       THEN \E db_ok \in BOOLEAN :
              LET r == save_voice_transcript(conversation_transcript,
                                             session_type, db_ok)
              IN  /\ entries' = entries \o r.rows
                  /\ save_error' = r.error
                  /\ save_calls' = save_calls + 1
       ELSE UNCHANGED << entries, save_error, save_calls >>
  /\ openai_ws' = upstream_after_teardown(openai_ws, save_error')
  /\ pc' = "done"
  /\ UNCHANGED << relay_pc, api_key, session_type, awaiting_response,
                  conversation_transcript, client_conn, relay_msg, client_msg,
                  upReceived, toClient, clientReceived, toUpstream,
                  requests_since_commit >>

----------------------------------------------------------------------------
(* The environment: either peer can go away while the session runs.        *)

ClientDisconnects ==
  /\ client_conn = "open"
  /\ pc \notin {"finally", "done"}
  /\ client_conn' = "gone"
  /\ UNCHANGED << pc, relay_pc, api_key, session_type, awaiting_response,
                  conversation_transcript, openai_ws, relay_msg, client_msg,
                  upReceived, toClient, clientReceived, toUpstream, entries,
                  save_calls, save_error, requests_since_commit >>

UpstreamDrops ==
  /\ openai_ws = "open"
  /\ pc \notin {"finally", "done"}
  /\ openai_ws' = "dropped"
  /\ UNCHANGED << pc, relay_pc, api_key, session_type, awaiting_response,
                  conversation_transcript, client_conn, relay_msg, client_msg,
                  upReceived, toClient, clientReceived, toUpstream, entries,
                  save_calls, save_error, requests_since_commit >>

Next ==
  \/ CheckApiKey
  \/ SendNoKeyError
  \/ ReceiveConfig
  \/ ReceiveConfigDisconnected
  \/ ConnectUpstream
  \/ SendSessionConfig
  \/ SendReady
  \/ RelayReceive
  \/ RelayReceiveClosed
  \/ RelayAutoSend
  \/ RelayForward
  \/ ClientLoopReceive
  \/ ClientLoopDisconnect
  \/ ClientLoopSend
  \/ SendError
  \/ Teardown
  \/ ClientDisconnects
  \/ UpstreamDrops

Spec ==
  Init /\ [][Next]_vars

----------------------------------------------------------------------------
(* Properties of the upstream-to-client routine.                           *)

Committed ==
  Event("input_audio_buffer.committed", "-")

Last(log) ==
  log[Len(log)]

\* The step appends a response.create of the bridge to the upstream wire.
BridgeRequestSent ==
  /\ Len(toUpstream') = Len(toUpstream) + 1
  /\ Last(toUpstream').src = "bridge"
  /\ Last(toUpstream').frame = AutoResponseCreate

\* The step in which the awaited auto-advance send returns or raises.
AutoSendReturns ==
  relay_pc = "auto_send" /\ relay_pc' \notin {"auto_send", "cancelled"}

\* C1 (as claimed): a committed event received while awaiting_response is
\* false is followed, before the next upstream message is processed, by
\* exactly one response.create sent upstream and awaiting_response true; a
\* committed event received while awaiting_response is true sends none.
C1_AsClaimed ==
  [][ /\ (upReceived' = Append(upReceived, Committed) /\ ~awaiting_response)
          => (relay_pc' = "auto_send" /\ toUpstream' = toUpstream)
      /\ AutoSendReturns
          => /\ upReceived' = upReceived
             /\ toUpstream' = Append(toUpstream, ToUp("bridge", AutoResponseCreate))
             /\ awaiting_response'
      /\ (upReceived' = Append(upReceived, Committed) /\ awaiting_response)
          => (relay_pc' = "fwd" /\ toUpstream' = toUpstream)
      /\ BridgeRequestSent => relay_pc = "auto_send"
    ]_vars

\* C1 (amended): a committed event received while awaiting_response is false
\* makes the bridge attempt one response.create before the next upstream
\* message is processed; if the send succeeds exactly one response.create is
\* delivered and awaiting_response becomes true, if the send raises none is
\* delivered and awaiting_response is left as it is; a committed event
\* received while awaiting_response is true sends none.
C1_AutoAdvance ==
  [][ /\ (upReceived' = Append(upReceived, Committed) /\ ~awaiting_response)
          => (relay_pc' = "auto_send" /\ toUpstream' = toUpstream)
      /\ AutoSendReturns
          => /\ upReceived' = upReceived
             /\ relay_pc' = "fwd"
             /\ IF openai_ws = "open"
                  THEN /\ toUpstream' = Append(toUpstream,
                                               ToUp("bridge", AutoResponseCreate))
                       /\ awaiting_response'
                  ELSE /\ toUpstream' = toUpstream
                       /\ awaiting_response' = awaiting_response
      /\ (upReceived' = Append(upReceived, Committed) /\ awaiting_response)
          => (relay_pc' = "fwd" /\ toUpstream' = toUpstream)
      /\ BridgeRequestSent => relay_pc = "auto_send"
    ]_vars

\* A committed event was received with the flag false and the auto-advance
\* request has been delivered.
C1_Witness ==
  /\ relay_pc = "fwd"
  /\ relay_msg = Committed
  /\ awaiting_response
  /\ toUpstream # << >>
  /\ Last(toUpstream).src = "bridge"
  /\ Last(toUpstream).frame = AutoResponseCreate

----------------------------------------------------------------------------
(* Interleaving of the two routines.                                       *)

\* C2: between one committed event and the next completion event at most
\* one response.create (client-initiated or auto-advance) reaches the
\* upstream connection.
C2_SingleRequestPerCommit ==
  requests_since_commit <= 1

----------------------------------------------------------------------------
(* Termination.  The event loop runs every step of the handler and of the  *)
(* relay task that does not wait for a peer: those steps are weakly fair.  *)
(* Nothing obliges the client or the upstream service to send or to close. *)

HandlerStep ==
  \/ CheckApiKey
  \/ SendNoKeyError
  \/ ReceiveConfigDisconnected
  \/ ConnectUpstream
  \/ SendSessionConfig
  \/ SendReady
  \/ ClientLoopDisconnect
  \/ ClientLoopSend
  \/ SendError
  \/ Teardown

RelayStep ==
  \/ RelayReceiveClosed
  \/ RelayAutoSend
  \/ RelayForward

FairSpec ==
  Spec /\ WF_vars(HandlerStep) /\ WF_vars(RelayStep)

\* C3: once the upstream-to-client routine has stopped (upstream closed or
\* an error in the routine), the session eventually completes its teardown,
\* whatever the client does.
C3_RelayStopEndsSession ==
  (relay_pc = "stopped") ~> (pc = "done")

----------------------------------------------------------------------------
(* The pending flag.                                                       *)

\* C6: every upstream message of one of the five completion kinds leaves
\* awaiting_response false once relay_from_openai has inspected it, and the
\* flag goes from true to false only in such a step.
C6_CompletionClearsFlag ==
  [][ /\ (\E f \in UpstreamFrames :
            /\ f.syntax = "object"
            /\ f.type \in CompletionTypes
            /\ upReceived' = Append(upReceived, f))
          => ~awaiting_response'
      /\ (awaiting_response /\ ~awaiting_response')
          => /\ Len(upReceived') = Len(upReceived) + 1
             /\ Last(upReceived').syntax = "object"
             /\ Last(upReceived').type \in CompletionTypes
    ]_vars

\* A completion event has just been inspected after the client had set the
\* flag with its own response.create.
C6_Witness ==
  /\ relay_pc = "fwd"
  /\ relay_msg.type = "response.output_audio.done"
  /\ ~awaiting_response
  /\ toUpstream # << >>
  /\ Last(toUpstream) = ToUp("client", Event("response.create", "-"))

----------------------------------------------------------------------------
(* Forwarding.                                                             *)

RECURSIVE FramesFrom(_, _)
FramesFrom(log, src) ==
  IF log = << >> THEN << >>
  ELSE IF Head(log).src = src
    THEN << Head(log).frame >> \o FramesFrom(Tail(log), src)
    ELSE FramesFrom(Tail(log), src)

IsPrefix(a, b) ==
  /\ Len(a) <= Len(b)
  /\ \A i \in 1..Len(a) : a[i] = b[i]

C10_MalformedForwarded ==
  [][ /\ upReceived' = Append(upReceived, MalformedText)
          => /\ relay_pc' = "fwd"
             /\ relay_msg' = MalformedText
             /\ UNCHANGED << awaiting_response, conversation_transcript,
                             toUpstream, toClient >>
      /\ (relay_pc = "fwd" /\ relay_msg = MalformedText
            /\ relay_pc' # relay_pc /\ client_conn = "open" /\ relay_pc' # "cancelled")
          => /\ toClient' = Append(toClient, ToCl("upstream", MalformedText))
             /\ relay_pc' = "recv"
             /\ UNCHANGED << awaiting_response, conversation_transcript,
                             toUpstream >>
    ]_vars

\* A malformed message was forwarded and the message after it as well.
C10_Witness ==
  /\ Len(upReceived) = 2
  /\ upReceived[1] = MalformedText
  /\ FramesFrom(toClient, "upstream") = upReceived
  /\ relay_pc = "recv"

----------------------------------------------------------------------------
(* Persistence and teardown.                                               *)

HasUser(transcript) ==
  \E i \in DOMAIN transcript : transcript[i].role = "user"

\* C4 (as claimed): a finished session has written an entry if and only if
\* a fragment with role user was recorded.
C4_AsClaimed ==
  pc = "done" => (entries # << >> <=> HasUser(conversation_transcript))

\* C4 (amended): an entry is written only by the teardown, at most once, and
\* a finished session has written one if and only if a fragment with role
\* user was recorded and persisting it did not fail.
C4_PersistIffUser ==
  /\ Len(entries) <= 1
  /\ pc # "done" => entries = << >>
  /\ pc = "done" =>
       (entries # << >> <=> (HasUser(conversation_transcript) /\ ~save_error))
  /\ save_error => HasUser(conversation_transcript)

\* A finished session with a user and an assistant fragment and one entry.
C4_Witness ==
  /\ pc = "done"
  /\ Len(entries) = 1
  /\ HasUser(conversation_transcript)
  /\ \E i \in DOMAIN conversation_transcript :
       conversation_transcript[i].role = "assistant"

IsError(m) ==
  m = ToCl("bridge", ErrorMsg)
IsReady(m) ==
  m = ToCl("bridge", ReadyMsg)

ErrorAfterReady ==
  \E i, j \in DOMAIN toClient :
    i < j /\ IsReady(toClient[i]) /\ IsError(toClient[j])

ErrorCount ==
  Cardinality({ i \in DOMAIN toClient : IsError(toClient[i]) })

C7_TeardownAlways ==
  pc = "done" =>
    /\ save_calls = (IF conversation_transcript # << >> THEN 1 ELSE 0)
    /\ openai_ws \in {"none", "closed"}
    /\ (toUpstream # << >> \/ relay_pc # "none") => openai_ws = "closed"
    /\ conversation_transcript = << >> => entries = << >>

\* Persisting failed and the upstream connection was closed all the same.
C7_Witness ==
  /\ pc = "done"
  /\ save_error
  /\ save_calls = 1
  /\ openai_ws = "closed"

----------------------------------------------------------------------------
(* The flush as a function of the fragment list and the session type: the  *)
(* handler enters its finally block after the client disconnected, with    *)
(* any fragment list of at most MaxFragments fragments.                    *)

FlushTexts ==
  { "A", "B", "C" }
FlushSessionTypes ==
  KnownSessionTypes \cup { "journal" }
Roles ==
  { "user", "assistant" }

\* The upstream event that records the fragment (lines 675-689).
EventOf(fragment) ==
  IF fragment.role = "user"
    THEN Event("conversation.item.input_audio_transcription.completed",
               fragment.content)
    ELSE Event("response.text.done", fragment.content)

InitFlush ==
  \E st \in FlushSessionTypes, n \in 0..MaxFragments :
    \E roles \in [1..n -> Roles], texts \in [1..n -> FlushTexts] :
      LET transcript == [i \in 1..n |->
                           Fragment(roles[i], texts[i], isoformat(i))]
          events == [i \in 1..n |-> EventOf(transcript[i])]
      IN  /\ pc = "finally"
          /\ relay_pc = "cancelled"
          /\ api_key = TRUE
          /\ session_type = st
          /\ awaiting_response = FALSE
          /\ conversation_transcript = transcript
          /\ openai_ws = "open"
          /\ client_conn = "gone"
          /\ relay_msg = IF n = 0 THEN NoFrame ELSE events[n]
          /\ client_msg = NoFrame
          /\ upReceived = events
          /\ toClient = << ToCl("bridge", ReadyMsg) >>
                        \o [i \in 1..n |-> ToCl("upstream", events[i])]
          /\ clientReceived = << >>
          /\ toUpstream = << ToUp("bridge", SessionUpdate(st)) >>
          /\ entries = << >>
          /\ save_calls = 0
          /\ save_error = FALSE
          /\ requests_since_commit = -1

NextFlush ==
  Teardown

FlushSpec ==
  InitFlush /\ [][NextFlush]_vars

IsUser(fragment) ==
  fragment.role = "user"

\* The texts separated by single spaces, built from the left.
RECURSIVE SpaceSeparated(_)
SpaceSeparated(fragments) ==
  IF Len(fragments) = 1 THEN fragments[1].content
  ELSE SpaceSeparated(SubSeq(fragments, 1, Len(fragments) - 1))
       \o " " \o fragments[Len(fragments)].content

RolesAndTexts(transcript) ==
  [i \in DOMAIN transcript |-> << transcript[i].role, transcript[i].content >>]

\* C8: a flush of a list with at least one user fragment that does not fail
\* writes exactly one entry: its content is the user texts in order joined
\* by single spaces, its ai_prompts decodes to the same fragment list, its
\* type is voice_ followed by the session type; [user A, assistant B, user C]
\* gives the content "A C".
C8_FlushedEntry ==
  (pc = "done" /\ HasUser(conversation_transcript) /\ ~save_error) =>
    /\ Len(entries) = 1
    /\ entries[1].content =
         SpaceSeparated(SelectSeq(conversation_transcript, IsUser))
    /\ parse_ai_prompts(entries[1].ai_prompts) = conversation_transcript
    /\ entries[1].type = "voice_" \o session_type
    /\ session_type = "planning" => entries[1].type = "voice_planning"
    /\ RolesAndTexts(conversation_transcript)
         = << <<"user", "A">>, <<"assistant", "B">>, <<"user", "C">> >>
       => entries[1].content = "A C"

\* The list [user A, assistant B, user C] was flushed.
C8_Witness ==
  /\ pc = "done"
  /\ Len(entries) = 1
  /\ RolesAndTexts(conversation_transcript)
       = << <<"user", "A">>, <<"assistant", "B">>, <<"user", "C">> >>
  /\ entries[1].content = "A C"

----------------------------------------------------------------------------
(* Properties of the session setup.                                        *)

ReadySent ==
  \E i \in DOMAIN toClient : IsReady(toClient[i])

EndPcs ==
  {"except", "finally", "done"}

\* C11: with the credential missing the session never reads the
\* configuration message, never opens an upstream connection, sends nothing
\* upstream and writes no entry, and when it has finished it has sent the
\* client one error message and nothing else (none if the client had already
\* gone); a session that has not sent the ready message has started no relay
\* routine, recorded no fragment and persisted nothing, and once setup has
\* failed the handler only runs its error handler and its teardown.
C11_SetupFailureIsTerminal ==
  /\ [](/\ ~api_key =>
             /\ pc \in {"start", "err_nokey"} \cup EndPcs
             /\ session_type = "reflection"
             /\ clientReceived = << >>
             /\ openai_ws = "none"
             /\ toUpstream = << >>
             /\ entries = << >>
        /\ (~api_key /\ pc = "done") =>
             /\ ErrorCount <= 1
             /\ Len(toClient) = ErrorCount
             /\ client_conn = "open" => ErrorCount = 1
        /\ ~ReadySent =>
             /\ relay_pc = "none"
             /\ conversation_transcript = << >>
             /\ entries = << >>
             /\ save_calls = 0)
  /\ [][ (pc \in EndPcs) => (pc' \in EndPcs) ]_vars

\* The session without a credential has finished after exactly one error
\* message to the client.
C11_Witness ==
  /\ ~api_key
  /\ pc = "done"
  /\ toClient = << ToCl("bridge", ErrorMsg) >>

IsSessionUpdate(m) ==
  m.src = "bridge" /\ m.frame.type = "session.update"

SessionUpdateCount ==
  Cardinality({ i \in DOMAIN toUpstream : IsSessionUpdate(toUpstream[i]) })

\* C12: the upstream connection is opened at most once per session (only
\* from the state without a connection, at the connect step); whatever is on
\* the upstream wire starts with the one session.update of the bridge, built
\* for the session type; the ready message is sent only after it; and no
\* upstream frame reaches the client and no client frame reaches upstream
\* before the ready message.
C12_SetupOrder ==
  /\ [](/\ SessionUpdateCount <= 1
        /\ toUpstream # << >> =>
             toUpstream[1] = ToUp("bridge", SessionUpdate(session_type))
        /\ ReadySent =>
             /\ SessionUpdateCount = 1
             /\ openai_ws # "none"
        /\ (toClient # << >> /\ ~IsReady(toClient[1])) =>
             (\A i \in DOMAIN toClient : IsError(toClient[i]))
        /\ (\E i \in DOMAIN toClient : toClient[i].src = "upstream") =>
             IsReady(toClient[1])
        /\ (\E i \in DOMAIN toUpstream : toUpstream[i].src = "client") =>
             ReadySent
        /\ (relay_pc # "none" \/ clientReceived # << >>) => ReadySent)
  /\ [][ openai_ws' = "open" =>
           (openai_ws = "open" \/ (openai_ws = "none" /\ pc = "connect")) ]_vars

\* After the ready message an upstream frame was forwarded to the client and
\* a client frame was forwarded upstream, behind the session.update.
C12_Witness ==
  /\ Len(toClient) >= 2
  /\ Len(toUpstream) >= 2
  /\ IsReady(toClient[1])
  /\ toClient[2].src = "upstream"
  /\ toUpstream[1] = ToUp("bridge", SessionUpdate(session_type))
  /\ \E i \in DOMAIN toUpstream : toUpstream[i].src = "client"

\* C13: whenever the session type is outside the four known values, prompt
\* selection gives the reflection instruction text, voice and text variant,
\* and the reflection initial message, and the step that builds and sends
\* the session configuration on an open upstream connection does not fail.
C13_UnknownTypeFallsBack ==
  /\ [](session_type \notin KnownSessionTypes =>
          /\ get_session_prompt(session_type, TRUE) = VOICE_PROMPTS["reflection"]
          /\ get_session_prompt(session_type, FALSE) = BASE_PROMPTS["reflection"]
          /\ dict_get(INITIAL_MESSAGES, session_type,
                      INITIAL_MESSAGES["reflection"])
               = INITIAL_MESSAGES["reflection"])
  /\ [][ (pc = "send_config" /\ openai_ws = "open"
          /\ session_type \notin KnownSessionTypes)
           => (pc' # "except") ]_vars

----------------------------------------------------------------------------
(* Properties of the fragment list.                                        *)

UserTranscriptTypes ==
  { "conversation.item.input_audio_transcription.completed" }

\* The completion-of-text kinds among the completion kinds of lines 665-671.
AssistantTextTypes ==
  { "response.text.done", "response.output_text.done" }

\* The step appends one fragment of the role with the text to the list.
AppendsFragment(role, text) ==
  /\ Len(conversation_transcript') = Len(conversation_transcript) + 1
  /\ SubSeq(conversation_transcript', 1, Len(conversation_transcript))
       = conversation_transcript
  /\ Last(conversation_transcript').role = role
  /\ Last(conversation_transcript').content = text

\* C14: the step in which an upstream event with a completed user
\* transcription is received appends one user fragment with its text, the
\* step in which an upstream event of a completion-of-text kind is received
\* appends one assistant fragment with its text, and every other step of the
\* session leaves the fragment list as it is.
C14_FragmentsMirrorEvents ==
  [][ IF upReceived' # upReceived
        THEN LET message == Last(upReceived')
                 data    == json_loads(message)
                 event   == message.fmt = "text" /\ data.ok /\ data.isdict
             IN  IF event /\ data.type \in UserTranscriptTypes
                   THEN AppendsFragment("user", data.arg)
                 ELSE IF event /\ data.type \in AssistantTextTypes
                   THEN AppendsFragment("assistant", data.arg)
                 ELSE conversation_transcript' = conversation_transcript
        ELSE conversation_transcript' = conversation_transcript ]_vars

----------------------------------------------------------------------------
(* Properties of the client-to-upstream loop.                              *)

\* The client message is text that parses to an object of type response.create.
IsResponseCreate(message) ==
  LET payload == json_loads(message)
  IN  message.fmt = "text" /\ payload.ok /\ payload.isdict
      /\ payload.type = "response.create"

\* The client's response.create was accepted and its send upstream has not
\* returned yet.
RequestInFlight ==
  pc = "c2u_send" /\ IsResponseCreate(client_msg)

\* The step in which the upstream-to-client routine receives a committed
\* event, which makes it read the flag (line 653).
RelayReadsFlag ==
  /\ upReceived' # upReceived
  /\ Last(upReceived') = Committed

\* The effect of accepting and of forwarding a client message: accepting a
\* response.create sets the flag, accepting anything else leaves it, the
\* fragment list is left alone, and the send that returns puts the message,
\* as received, on the upstream wire without touching flag or fragments.
ClientLoopEffect ==
  /\ (clientReceived' # clientReceived) =>
       /\ awaiting_response' =
            (IF IsResponseCreate(Last(clientReceived'))
               THEN TRUE ELSE awaiting_response)
       /\ conversation_transcript' = conversation_transcript
       /\ toUpstream' = toUpstream
  /\ (pc = "c2u_send" /\ pc' = "loop") =>
       /\ toUpstream' = Append(toUpstream, ToUp("client", Last(clientReceived)))
       /\ awaiting_response' = awaiting_response
       /\ conversation_transcript' = conversation_transcript

\* C15: accepting a client response.create sets the flag before the message
\* is forwarded, and while that request is accepted and not yet forwarded
\* the upstream-to-client routine never reads the flag as false; every other
\* client message leaves the flag and the fragment list unchanged and is
\* forwarded as received.
C15_FlagSetBeforeForwarding ==
  [][ /\ ClientLoopEffect
      /\ (RequestInFlight /\ RelayReadsFlag) => awaiting_response ]_vars

----------------------------------------------------------------------------
(* Properties of the persisted entry.                                      *)

VoiceTypeTags ==
  { "voice_" \o t : t \in KnownSessionTypes }

\* C16: every entry a voice session has written carries one of the four
\* voice tags, the session type it was written under being one of the four
\* known values (so that a configuration message naming any other value
\* leads to an entry tagged voice_reflection).
C16_KnownTypeTag ==
  \A i \in DOMAIN entries :
    /\ session_type \in KnownSessionTypes
    /\ entries[i].type \in VoiceTypeTags

FlushStarted ==
  pc \in {"finally", "done"}

\* C17: a session writes at most one entry and attempts the flush at most
\* once; an entry that was written holds, read back, the whole fragment list
\* of the session; when the handler has left the client loop the
\* upstream-to-client routine is not running any more; and once that
\* routine is cancelled or the flush has started, no step changes the
\* fragment list or moves the routine.
C17_FlushOnceLosesNothing ==
  /\ [](/\ Len(entries) <= 1
        /\ save_calls <= 1
        /\ entries # << >> =>
             /\ pc = "done"
             /\ parse_ai_prompts(entries[1].ai_prompts) = conversation_transcript
        /\ (pc \in EndPcs) => relay_pc \in {"none", "stopped", "cancelled"})
  /\ [][ (relay_pc = "cancelled" \/ FlushStarted) =>
           /\ conversation_transcript' = conversation_transcript
           /\ relay_pc' = relay_pc ]_vars

\* The session ended with the relay routine cancelled and one entry that
\* holds both recorded fragments.
C17_Witness ==
  /\ pc = "done"
  /\ relay_pc = "cancelled"
  /\ Len(entries) = 1
  /\ Len(conversation_transcript) >= 2
  /\ parse_ai_prompts(entries[1].ai_prompts) = conversation_transcript

====
